---- MODULE Spec2Model ----
(***************************************************************************)
(* Ludo online server: the game gateway (src/src/game/game.gateway.ts),    *)
(* its validator (src/src/game/game.validator.service.ts) and the board    *)
(* generator (src/unnamed/part_001), as a state machine over the redis     *)
(* store.  A handler is async: its gets and its sets are separate steps.  *)
(***************************************************************************)
EXTENDS Integers, Sequences, FiniteSets, Bags, TLC

\* ------------------------------------------------------------------ bounds
\* Sessions beyond the four seats of a game (socket ids are never reused).
NumExtra == 1
\* Game ids randomUUID may hand out in one run.
MaxGames == 2
\* Turn requests (roll, roll result, pawn moves, moved) after the start of play
\* (specification SpecRoad).
MaxTurn == 3
\* Lobby requests (create, join, choose color, disconnect) after a script that
\* is followed by requests of both kinds.
MaxChurn == 1
\* Handler calls open at once, and requests after any other script.
MaxCalls == 2

\* ------------------------------------------------------- program constants
MaxPlayers == 4
PawnsPerColor == 4
SegmentLen == 13
SafeOffset == 3
ExitOffset == 6
EntranceOffset == 8
FinalLen == 6
DiceFaces == 6
NoColor == -1
NoSession == 0

Colors == 0 .. 3
Sessions == 1 .. (MaxPlayers + NumExtra)
GameIds == 1 .. MaxGames
PawnIndexes == 0 .. (PawnsPerColor - 1)

\* SubscribeEventsEnum
MOVE_INITIAL == "game:move-initial"
MOVE_ROAD == "game:move-road"
MOVE_FINAL == "game:move-final"
\* AnimationTypeEnum
ADDED == "added"
REMOVED == "removed"
ANIMATED == "animated"
\* PawnSquarePositionEnum, in the preference order of getNextPosition
Positions == <<"top-left", "top-right", "bottom-left", "bottom-right">>
NoPosition == "undefined"

\* ------------------------------------------------------------- square ids
\* `road-<i>`, `initial-<color>-<i>`, `final-<color>-<i>` as <<zone, color, i>>.
RoadId(i) == <<"road", NoColor, i>>
InitialId(c, i) == <<"initial", c, i>>
FinalId(c, i) == <<"final", c, i>>
NoSquare == <<"undefined", NoColor, 0>>
\* squareId.includes('initial') / includes('final')
Includes(squareId, zone) == squareId[1] = zone
\* squareId.includes('5'): the decimal digits of the index hold a 5
IncludesFive(squareId) == (squareId[3] % 10 = 5) \/ ((squareId[3] \div 10) % 10 = 5)
\* parseInt(splitId[2] ?? splitId[1])
getSquareIndex(pawn) == pawn.squareId[3]

\* ---------------------------------------------------------------- helpers
\* Array.prototype.findIndex, 1-based; 0 when nothing matches
FindIndex(seq, P(_)) ==
  IF \E i \in 1 .. Len(seq) : P(seq[i])
  THEN CHOOSE i \in 1 .. Len(seq) : P(seq[i]) /\ \A j \in 1 .. (i - 1) : ~P(seq[j])
  ELSE 0
Some(seq, P(_)) == \E i \in 1 .. Len(seq) : P(seq[i])
Every(seq, P(_)) == \A i \in 1 .. Len(seq) : P(seq[i])
\* redis set / del on a key family
Put(f, k, v) == [x \in (DOMAIN f) \cup {k} |-> IF x = k THEN v ELSE f[x]]
Del(f, k) == [x \in (DOMAIN f) \ {k} |-> f[x]]
EmptyMap == [x \in {} |-> <<>>]
\* board[mutation][squareId], `undefined` read as no markers
MarkersAt(map, squareId) == IF squareId \in DOMAIN map THEN map[squareId] ELSE <<>>

\* ------------------------------------------------------- board generator
\* generateColorRoad with the exit one cell late
generateColorRoadLate(color, colorIndex) ==
  [i \in 1 .. SegmentLen |->
     [id |-> RoadId(colorIndex * SegmentLen + (i - 1)),
      color |-> color,
      safeZone |-> (i - 1 = SafeOffset) \/ (i - 1 = EntranceOffset),
      exit |-> (i - 1 = ExitOffset + 1),
      entrance |-> (i - 1 = EntranceOffset)]]

generateColorRoad(color, colorIndex) ==
  [i \in 1 .. SegmentLen |->
     [id |-> RoadId(colorIndex * SegmentLen + (i - 1)),
      color |-> color,
      safeZone |-> (i - 1 = SafeOffset) \/ (i - 1 = EntranceOffset),
      exit |-> (i - 1 = ExitOffset),
      entrance |-> (i - 1 = EntranceOffset)]]

generateRoad ==
  [j \in 1 .. (Cardinality(Colors) * SegmentLen) |->
     generateColorRoad((j - 1) \div SegmentLen, (j - 1) \div SegmentLen)[((j - 1) % SegmentLen) + 1]]

generateFinalZone == [c \in Colors |-> [i \in 1 .. FinalLen |-> [id |-> FinalId(c, i - 1)]]]

NoAction == <<>>

generatePawns ==
  [c \in Colors |->
     [i \in 1 .. PawnsPerColor |->
        [color |-> c, index |-> i - 1, squareId |-> InitialId(c, i - 1),
         endReached |-> FALSE, action |-> NoAction]]]

NoMove == [color |-> NoColor]
NoSmash == [color |-> NoColor]

createBoard ==
  [pawns |-> generatePawns, movePawn |-> NoMove, karyogamy |-> EmptyMap, mitosis |-> EmptyMap]

\* board.road, board.finalZone: never written after createBoard
Road == generateRoad
FinalZone == generateFinalZone
LastRoadIndex == Len(Road) - 1

\* ------------------------------------------------------------- validator
\* A definition that reads a value several times takes it as a parameter.
Valid(game) == [game |-> game, error |-> ""]
Invalid(msg) == [game |-> [current |-> NoSession], error |-> msg]

WinnerValues(winners) == {winners[k] : k \in 1 .. 3}
PlayerOf(game, id) == FindIndex(game.players, LAMBDA p : p.socketId = id)
PlayerColor(game, id) == game.players[PlayerOf(game, id)].color
PawnAt(game, color, pawnIndex) == game.board.pawns[color][pawnIndex + 1]

\* validateGame once the game is parsed; the message of a winner names the
\* first winners slot that holds its color (Object.keys(game.winners).find)
GameChecks(game, pi) ==
  IF pi = 0 THEN Invalid("Not in game")
  ELSE IF \A k \in 1 .. 3 : game.winners[k] # NoColor THEN Invalid("Game is already finished")
  ELSE IF game.players[pi].color # NoColor /\ game.players[pi].color \in WinnerValues(game.winners)
       THEN Invalid(<<"You are already the top 1", "You are already the top 2",
                      "You are already the top 3">>[
                        CHOOSE k \in 1 .. 3 :
                          /\ game.winners[k] = game.players[pi].color
                          /\ \A j \in 1 .. (k - 1) : game.winners[j] # game.players[pi].color])
  ELSE Valid(game)

validateGame(db, id) ==
  IF id \notin DOMAIN db.index THEN Invalid("Not in game")
  ELSE IF db.index[id] \notin DOMAIN db.store THEN Invalid("Invalid game id")
  ELSE GameChecks(db.store[db.index[id]], PlayerOf(db.store[db.index[id]], id))

\* validateChoosenColor that does not look at the colors already held
ChoosenColorChecksFree(validation, color) ==
  IF validation.error # "" THEN validation
  ELSE IF color \notin Colors THEN Invalid("Invalid color")
  ELSE validation

ChoosenColorChecks(validation, color) ==
  IF validation.error # "" THEN validation
  ELSE IF color \notin Colors THEN Invalid("Invalid color")
  ELSE IF Some(validation.game.players, LAMBDA p : p.color = color)
       THEN Invalid("Color already taken")
  ELSE validation

validateChoosenColor(db, id, color) == ChoosenColorChecks(validateGame(db, id), color)

DiceRollChecks(validation, id) ==
  IF validation.error # "" THEN validation
  ELSE IF validation.game.current # id THEN Invalid("Not your turn")
  ELSE IF ~validation.game.dice.ableToRoll THEN Invalid("Dice cannot be rolled right now")
  ELSE IF Len(validation.game.players) # MaxPlayers THEN Invalid("Not enough players")
  ELSE validation

validateDiceRoll(db, id) == DiceRollChecks(validateGame(db, id), id)

DiceResultChecks(validation, id) ==
  IF validation.error # "" THEN validation
  ELSE IF validation.game.current # id THEN Invalid("Not your turn")
  ELSE IF Len(validation.game.players) # MaxPlayers THEN Invalid("Not enough players")
  ELSE validation

validateDiceResult(db, id) == DiceResultChecks(validateGame(db, id), id)

\* A TypeError escaping a handler (a property read of undefined).
Thrown == "<thrown>"

\* validateMove: "" when the move may go on
validateMove(game, move, id, pawnIndex) ==
  IF game.players[PlayerOf(game, id)].socketId # game.current THEN "Not your turn"
  ELSE IF Len(game.players) # MaxPlayers THEN "Not enough players"
  ELSE IF PlayerColor(game, id) = NoColor THEN Thrown
  ELSE IF pawnIndex \notin PawnIndexes THEN "Invalid pawn index"
  ELSE IF PawnAt(game, PlayerColor(game, id), pawnIndex).action = NoAction
          \/ PawnAt(game, PlayerColor(game, id), pawnIndex).action[1] # move
       THEN "Pawn cannot be moved"
  ELSE ""

\* validateInitialMove without its test of the dice result
InitialMoveRollAny(validation, moveError) ==
  IF moveError # "" THEN Invalid(moveError) ELSE validation

InitialMoveRoll(validation, moveError) ==
  IF moveError # "" THEN Invalid(moveError)
  ELSE IF validation.game.dice.result \notin {1, 6} THEN Invalid("Dice roll is neither 1 nor 6")
  ELSE validation

InitialMoveChecks(validation, id, pawnIndex) ==
  IF validation.error # "" THEN validation
  ELSE InitialMoveRoll(validation, validateMove(validation.game, MOVE_INITIAL, id, pawnIndex))

validateInitialMove(db, id, pawnIndex) == InitialMoveChecks(validateGame(db, id), id, pawnIndex)

\* squaresToFinish = 5 - parseInt(pawn.squareId.split('-')[2]): a road id has
\* no third part, squaresToFinish is NaN and `result > NaN` is false
FinalMoveReach(validation, moveError, id, pawnIndex) ==
  IF moveError # "" THEN Invalid(moveError)
  ELSE IF /\ PawnAt(validation.game, PlayerColor(validation.game, id), pawnIndex).squareId[1]
               \in {"initial", "final"}
          /\ validation.game.dice.result >
               5 - PawnAt(validation.game, PlayerColor(validation.game, id), pawnIndex).squareId[3]
       THEN Invalid("Dice result is too high")
  ELSE validation

FinalMoveChecks(validation, id, pawnIndex) ==
  IF validation.error # "" THEN validation
  ELSE FinalMoveReach(validation, validateMove(validation.game, MOVE_FINAL, id, pawnIndex),
                      id, pawnIndex)

validateFinalMove(db, id, pawnIndex) == FinalMoveChecks(validateGame(db, id), id, pawnIndex)

RoadMoveResult(validation, moveError) ==
  IF moveError # "" THEN Invalid(moveError) ELSE validation

RoadMoveChecks(validation, id, pawnIndex) ==
  IF validation.error # "" THEN validation
  ELSE RoadMoveResult(validation, validateMove(validation.game, MOVE_ROAD, id, pawnIndex))

validateRoadMove(db, id, pawnIndex) == RoadMoveChecks(validateGame(db, id), id, pawnIndex)

validateMovedPawn(db, id) == validateGame(db, id)

\* ------------------------------------------------------ gateway helpers
\* getNextPlayer's result when it does not return: players[nextIndex] is
\* undefined (TypeError), or the recursion never ends (RangeError).
NextThrown == -1

RECURSIVE getNextPlayerFrom(_, _, _, _)
getNextPlayerFrom(current, players, winners, probes) ==
  LET playerIndex == FindIndex(players, LAMBDA p : p.socketId = current) - 1
      nextIndex == IF playerIndex < 3 THEN playerIndex + 1 ELSE 0
  IN IF nextIndex + 1 > Len(players) THEN NextThrown
     ELSE IF players[nextIndex + 1].color \in WinnerValues(winners)
          THEN IF probes >= MaxPlayers THEN NextThrown
               ELSE getNextPlayerFrom(players[nextIndex + 1].socketId, players, winners, probes + 1)
     ELSE players[nextIndex + 1].socketId

getNextPlayer(current, players, winners) == getNextPlayerFrom(current, players, winners, 1)

getWinnerPosition(winners) == Cardinality({k \in 1 .. 3 : winners[k] # NoColor}) + 1

\* every pawn, by color and then by index: the order of the loops over `colors`
AllPawns(game) ==
  [k \in 1 .. (Cardinality(Colors) * PawnsPerColor) |->
     game.board.pawns[(k - 1) \div PawnsPerColor][((k - 1) % PawnsPerColor) + 1]]

getPawnsOnRoad(game, roadId) == SelectSeq(AllPawns(game), LAMBDA p : p.squareId = roadId)

NoPawn == [color |-> NoColor, index |-> 0]

\* road.find(id) ?? finalZone[color].find(id); `undefined` is NoSquare
FindSquare(color, id) ==
  IF \E j \in 1 .. Len(Road) : Road[j].id = id
  THEN LET j == CHOOSE j \in 1 .. Len(Road) : Road[j].id = id
       IN [id |-> Road[j].id, safeZone |-> Road[j].safeZone]
  ELSE IF \E j \in 1 .. FinalLen : FinalZone[color][j].id = id
       THEN [id |-> id, safeZone |-> FALSE]
       ELSE [id |-> NoSquare, safeZone |-> FALSE]

smashPawn(game, road, pawn) ==
  IF Includes(road.id, "final") THEN NoPawn
  ELSE IF road.safeZone THEN NoPawn
  ELSE IF Len(getPawnsOnRoad(game, road.id)) # 2 THEN NoPawn
  ELSE LET others == SelectSeq(AllPawns(game),
                               LAMBDA p : p.color # pawn.color /\ p.squareId = road.id)
       IN IF Len(others) > 0 THEN [color |-> others[1].color, index |-> others[1].index]
          ELSE NoPawn

\* ---------------------------------------------------------------- mitosis
getNextPosition(mitosis, color) ==
  LET mi == FindIndex(mitosis, LAMBDA m : m.color = color)
      free == FindIndex(Positions, LAMBDA p : ~Some(mitosis, LAMBDA m : m.position = p))
  IN IF mi # 0 /\ mitosis[mi].position # NoPosition THEN mitosis[mi].position
     ELSE IF free # 0 THEN Positions[free]
     ELSE NoPosition

RECURSIVE mitosisColors(_, _, _)
mitosisColors(mitosis, pawnsOnRoad, color) ==
  IF color \notin Colors THEN mitosis
  ELSE LET pawns == SelectSeq(pawnsOnRoad, LAMBDA p : p.color = color) IN
       IF Len(pawns) = 0 THEN mitosisColors(mitosis, pawnsOnRoad, color + 1)
       ELSE LET mitosisPawns == SelectSeq(mitosis, LAMBDA m : m.color = color)
                pawnsToAdd == SelectSeq(pawns,
                                LAMBDA p : ~Some(mitosisPawns, LAMBDA m : m.index = p.index))
                position == getNextPosition(mitosis, color)
                added == [k \in 1 .. Len(pawnsToAdd) |->
                            [color |-> pawnsToAdd[k].color, index |-> pawnsToAdd[k].index,
                             position |-> position, type |-> ADDED]]
            IN mitosisColors(mitosis \o added, pawnsOnRoad, color + 1)

addMitosisIfNeeded(game, movingPawn) ==
  LET pawnsOnRoad == getPawnsOnRoad(game, movingPawn.squareId) IN
  IF Len(pawnsOnRoad) < 2 THEN game
  ELSE IF Every(pawnsOnRoad, LAMBDA p : p.color = pawnsOnRoad[1].color) THEN game
  ELSE [game EXCEPT !.board.mitosis =
          Put(@, movingPawn.squareId,
              mitosisColors(MarkersAt(@, movingPawn.squareId), pawnsOnRoad, 0))]

removeMitosisIfNeeded(game, pawn) ==
  LET pawnsOnRoad == getPawnsOnRoad(game, pawn.squareId) IN
  IF Len(pawnsOnRoad) = 0 THEN game
  ELSE IF pawn.squareId \notin DOMAIN game.board.mitosis THEN game
  ELSE LET mitosis == game.board.mitosis[pawn.squareId]
           mi == FindIndex(mitosis, LAMBDA m : m.color = pawn.color /\ m.index = pawn.index)
       IN IF mi = 0 THEN game
          ELSE [game EXCEPT !.board.mitosis[pawn.squareId][mi].type = REMOVED]

\* -------------------------------------------------------------- karyogamy
\* karyogamyPawns[0].isMain = true when no marker of the color is main
PromoteFirst(karyogamy, P(_)) ==
  LET first == FindIndex(karyogamy, P) IN
  IF first # 0 /\ ~Some(karyogamy, LAMBDA k : P(k) /\ k.isMain)
  THEN [karyogamy EXCEPT ![first].isMain = TRUE]
  ELSE karyogamy

RECURSIVE karyogamyColors(_, _, _, _)
karyogamyColors(karyogamy, pawnsOnRoad, sameColor, color) ==
  IF color \notin Colors THEN karyogamy
  ELSE IF color \notin sameColor THEN karyogamyColors(karyogamy, pawnsOnRoad, sameColor, color + 1)
  ELSE LET pawns == SelectSeq(pawnsOnRoad,
                      LAMBDA p : p.color = color
                                 /\ ~Some(karyogamy, LAMBDA k : k.id = p.index /\ k.color = color))
       IN IF Len(pawns) = 0 THEN karyogamyColors(karyogamy, pawnsOnRoad, sameColor, color + 1)
          ELSE LET added == [k \in 1 .. Len(pawns) |->
                               [color |-> pawns[k].color, id |-> pawns[k].index,
                                type |-> ADDED, isMain |-> FALSE]]
               IN karyogamyColors(PromoteFirst(karyogamy \o added, LAMBDA k : k.color = color),
                                  pawnsOnRoad, sameColor, color + 1)

addKaryogamyIfNeeded(game, movingPawn) ==
  LET pawnsOnRoad == getPawnsOnRoad(game, movingPawn.squareId)
      pawnsOnRoadWithSameColor ==
        {c \in Colors : Len(SelectSeq(pawnsOnRoad, LAMBDA p : p.color = c)) > 1}
  IN IF Len(pawnsOnRoad) < 2 THEN game
     ELSE IF pawnsOnRoadWithSameColor = {} THEN game
     ELSE [game EXCEPT !.board.karyogamy =
             Put(@, movingPawn.squareId,
                 karyogamyColors(MarkersAt(@, movingPawn.squareId), pawnsOnRoad,
                                 pawnsOnRoadWithSameColor, 0))]

removeKaryogamyIfNeeded(game, pawn) ==
  LET pawnsOnRoad == getPawnsOnRoad(game, pawn.squareId) IN
  IF Len(pawnsOnRoad) = 0 THEN game
  ELSE IF pawn.squareId \notin DOMAIN game.board.karyogamy THEN game
  ELSE LET karyogamy == game.board.karyogamy[pawn.squareId]
           ki == FindIndex(karyogamy, LAMBDA k : k.color = pawn.color /\ k.id = pawn.index)
       IN IF ki = 0 THEN game
          ELSE [game EXCEPT !.board.karyogamy[pawn.squareId] =
                  PromoteFirst([karyogamy EXCEPT ![ki].type = REMOVED, ![ki].isMain = FALSE],
                               LAMBDA k : k.color = pawn.color /\ k.type # REMOVED)]

\* ----------------------------------------------------------- clearMutations
\* the markers of one square: dropped when removed, animated otherwise
Settle(markers) ==
  LET kept == SelectSeq(markers, LAMBDA m : m.type # REMOVED)
  IN [k \in 1 .. Len(kept) |-> [kept[k] EXCEPT !.type = ANIMATED]]

SettleSquare(map, squareId) ==
  IF squareId \in DOMAIN map THEN [map EXCEPT ![squareId] = Settle(@)] ELSE map

\* movePawn.squaresIds.shift() takes the first square of the path away
clearMutations(game, mutation) ==
  IF game.board.movePawn.color = NoColor THEN game
  ELSE LET movePawn == game.board.movePawn
           removedPawn == game.board.pawns[movePawn.color][movePawn.index + 1]
           oldSquareId == IF Len(movePawn.squaresIds) > 0 THEN Head(movePawn.squaresIds)
                          ELSE NoSquare
           rest == IF Len(movePawn.squaresIds) > 0 THEN Tail(movePawn.squaresIds) ELSE <<>>
       IN [game EXCEPT
             !.board[mutation] = SettleSquare(SettleSquare(@, oldSquareId), removedPawn.squareId),
             !.board.movePawn.squaresIds = rest]

\* ---------------------------------------------------------------- gateway
\* What a handler call leaves behind: the two redis key families, the games it
\* broadcast, and its result (`error` is "" for an empty result, the message of
\* an { error } payload, or Thrown).  `ok` marks a call that ran to its end.
Done(st, ix, emits) == [ok |-> TRUE, error |-> "", store |-> st, index |-> ix, emits |-> emits]
Refused(st, ix, emits, error) ==
  [ok |-> FALSE, error |-> error, store |-> st, index |-> ix, emits |-> emits]
\* a return (or a throw) before anything was written or broadcast
Reject(db, error) == Refused(db.store, db.index, <<>>, error)

\* redis.set(game.id, JSON.stringify(game), 'EX', ...): the key is set and its
\* expiry starts anew (see Expire)
saveGame(st, game) == Put(st, game.id, game)
\* this.gameUpdated(game); await this.saveGame(game)
Saved(db, game) == Done(saveGame(db.store, game), db.index, <<game>>)

createGame(db, id, newId) ==
  Done(saveGame(db.store,
                [id |-> newId,
                 players |-> <<[socketId |-> id, color |-> NoColor]>>,
                 board |-> createBoard,
                 current |-> id,
                 dice |-> [count |-> 0, result |-> 1, ableToRoll |-> FALSE, rollAnimation |-> FALSE],
                 winners |-> <<NoColor, NoColor, NoColor>>]),
       Put(db.index, id, newId),
       <<[id |-> newId,
          players |-> <<[socketId |-> id, color |-> NoColor]>>,
          board |-> createBoard,
          current |-> id,
          dice |-> [count |-> 0, result |-> 1, ableToRoll |-> FALSE, rollAnimation |-> FALSE],
          winners |-> <<NoColor, NoColor, NoColor>>]>>)

\* joinGame once the player is pushed: the old game, then the new one
LeaveOld(db, id, gameId, game, hasOld, oldGame) ==
  Done(saveGame(IF ~hasOld THEN db.store
                ELSE IF Len(oldGame.players) > 0 THEN saveGame(db.store, oldGame)
                ELSE Del(db.store, oldGame.id),
                game),
       Put(db.index, id, gameId),
       IF hasOld THEN <<oldGame, game>> ELSE <<game>>)

\* joinGame that pushes the player and saves before it counts the roster
joinGameEager(db, id, gameId) ==
  IF gameId \notin DOMAIN db.store THEN Reject(db, "Invalid game id")
  ELSE IF Len(db.store[gameId].players) >= MaxPlayers
       THEN Refused(saveGame(db.store,
                             [db.store[gameId] EXCEPT
                                !.players = Append(@, [socketId |-> id, color |-> NoColor])]),
                    db.index, <<>>, "Game is full")
  ELSE IF Some(db.store[gameId].players, LAMBDA p : p.socketId = id)
       THEN Reject(db, "Already in game")
  ELSE LeaveOld(db, id, gameId,
                [db.store[gameId] EXCEPT !.players = Append(@, [socketId |-> id, color |-> NoColor])],
                id \in DOMAIN db.index /\ db.index[id] \in DOMAIN db.store,
                IF id \in DOMAIN db.index /\ db.index[id] \in DOMAIN db.store
                THEN [db.store[db.index[id]] EXCEPT
                        !.players = SelectSeq(@, LAMBDA p : p.socketId # id)]
                ELSE [id |-> NoSession, players |-> <<>>])

joinGame(db, id, gameId) ==
  IF gameId \notin DOMAIN db.store THEN Reject(db, "Invalid game id")
  ELSE IF Len(db.store[gameId].players) >= MaxPlayers THEN Reject(db, "Game is full")
  ELSE IF Some(db.store[gameId].players, LAMBDA p : p.socketId = id)
       THEN Reject(db, "Already in game")
  ELSE LeaveOld(db, id, gameId,
                [db.store[gameId] EXCEPT !.players = Append(@, [socketId |-> id, color |-> NoColor])],
                id \in DOMAIN db.index /\ db.index[id] \in DOMAIN db.store,
                IF id \in DOMAIN db.index /\ db.index[id] \in DOMAIN db.store
                THEN [db.store[db.index[id]] EXCEPT
                        !.players = SelectSeq(@, LAMBDA p : p.socketId # id)]
                ELSE [id |-> NoSession, players |-> <<>>])

ChoosenColor(db, validation, id, color) ==
  IF validation.error # "" THEN Reject(db, validation.error)
  ELSE Saved(db, [validation.game EXCEPT
                    !.players[PlayerOf(validation.game, id)].color = color,
                    !.dice.ableToRoll = (Len(validation.game.players) = MaxPlayers)])

chooseColor(db, id, color) == ChoosenColor(db, validateChoosenColor(db, id, color), id, color)

Rolled(db, validation, roll) ==
  IF validation.error # "" THEN Reject(db, validation.error)
  ELSE Saved(db, [validation.game EXCEPT
                    !.dice.ableToRoll = FALSE,
                    !.dice.rollAnimation = TRUE,
                    !.dice.result = roll,
                    !.dice.count = @ + 1])

rollDice(db, id, roll) == Rolled(db, validateDiceRoll(db, id), roll)

\* the body of rollResult's loop: the pawn's action after it
ResultAction(pawn, result) ==
  IF Includes(pawn.squareId, "initial")
  THEN IF result \in {1, 6} THEN <<MOVE_INITIAL, pawn.index>> ELSE pawn.action
  ELSE IF Includes(pawn.squareId, "final")
       THEN IF getSquareIndex(pawn) = 5 THEN pawn.action
            ELSE IF result <= 5 - getSquareIndex(pawn) THEN <<MOVE_FINAL, pawn.index>>
            ELSE pawn.action
  ELSE <<MOVE_ROAD, pawn.index>>

\* rollResult's loop over the pawns of the color, and rollAnimation = false
SetActions(game, color) ==
  [game EXCEPT
     !.board.pawns[color] =
        [i \in 1 .. PawnsPerColor |->
           [game.board.pawns[color][i] EXCEPT
              !.action = ResultAction(game.board.pawns[color][i], game.dice.result)]],
     !.dice.rollAnimation = FALSE]

\* game.current = getNextPlayer(...), saved unless getNextPlayer threw
PassedTo(db, game, next) ==
  IF next = NextThrown THEN Reject(db, Thrown) ELSE Saved(db, [game EXCEPT !.current = next])
PassTurn(db, game) == PassedTo(db, game, getNextPlayer(game.current, game.players, game.winners))

RollResultPass(db, game, color) ==
  IF Every(game.board.pawns[color], LAMBDA p : p.action = NoAction)
  THEN PassTurn(db, [game EXCEPT !.dice.count = 0, !.dice.ableToRoll = TRUE])
  ELSE Saved(db, game)

RollResultOf(db, validation, id) ==
  IF validation.error # "" THEN Reject(db, validation.error)
  ELSE IF PlayerColor(validation.game, id) = NoColor THEN Reject(db, Thrown)
  ELSE RollResultPass(db, SetActions(validation.game, PlayerColor(validation.game, id)),
                      PlayerColor(validation.game, id))

rollResult(db, id) == RollResultOf(db, validateDiceResult(db, id), id)

\* pawns.forEach((p) => (p.action = undefined))
ClearActions(pawns) == [i \in 1 .. Len(pawns) |-> [pawns[i] EXCEPT !.action = NoAction]]

MovePawn(color, pawnIndex, startingSquareId, squaresIds) ==
  [color |-> color, index |-> pawnIndex, startingSquareId |-> startingSquareId,
   squaresIds |-> squaresIds, smash |-> NoSmash]

\* the end of moveInitial and moveRoad: the markers of the square reached
Arrived(db, game, pawn) == Saved(db, addKaryogamyIfNeeded(addMitosisIfNeeded(game, pawn), pawn))

EnterRoad(db, game, color, pawnIndex, road) ==
  Arrived(db,
          [game EXCEPT
             !.board.pawns[color] = [ClearActions(@) EXCEPT ![pawnIndex + 1].squareId = road.id],
             !.board.movePawn = MovePawn(color, pawnIndex, PawnAt(game, color, pawnIndex).squareId,
                                         <<road.id>>)],
          [PawnAt(game, color, pawnIndex) EXCEPT !.squareId = road.id])

InitialMove(db, validation, id, pawnIndex) ==
  IF validation.error # "" THEN Reject(db, validation.error)
  ELSE EnterRoad(db, validation.game, PlayerColor(validation.game, id), pawnIndex,
                 Road[FindIndex(Road, LAMBDA r : r.color = PlayerColor(validation.game, id)
                                                 /\ r.entrance)])

moveInitial(db, id, pawnIndex) == InitialMove(db, validateInitialMove(db, id, pawnIndex), id, pawnIndex)

\* moveFinal after removeKaryogamyIfNeeded; pawn is the pawn before the move
LaneMove(db, game, pawn, squareId) ==
  Saved(db,
        addKaryogamyIfNeeded(
          [game EXCEPT
             !.board.pawns[pawn.color] =
                [ClearActions(@) EXCEPT ![pawn.index + 1].squareId = squareId,
                                        ![pawn.index + 1].endReached = IncludesFive(squareId)],
             !.board.movePawn =
                MovePawn(pawn.color, pawn.index, pawn.squareId,
                         [i \in 1 .. (squareId[3] - getSquareIndex(pawn)) |->
                            FinalId(pawn.color, getSquareIndex(pawn) + (i - 1) + 1)])],
          [pawn EXCEPT !.squareId = squareId]))

\* moveFinal that advances the pawn one lane cell more than the dice result
FinalMoveOfFar(db, game, pawn) ==
  LaneMove(db, removeKaryogamyIfNeeded(game, pawn), pawn,
           FinalId(pawn.color, getSquareIndex(pawn) + game.dice.result + 1))

FinalMoveOf(db, game, pawn) ==
  LaneMove(db, removeKaryogamyIfNeeded(game, pawn), pawn,
           FinalId(pawn.color, getSquareIndex(pawn) + game.dice.result))

FinalMove(db, validation, id, pawnIndex) ==
  IF validation.error # "" THEN Reject(db, validation.error)
  ELSE FinalMoveOf(db, validation.game,
                   PawnAt(validation.game, PlayerColor(validation.game, id), pawnIndex))

moveFinal(db, id, pawnIndex) == FinalMove(db, validateFinalMove(db, id, pawnIndex), id, pawnIndex)

\* the lane index that moves on the exit cell only
NextFinalIndexAtExit(color, road, finalIndex) ==
  IF road.color = color /\ road.exit THEN finalIndex + 1 ELSE finalIndex

\* one loop of moveRoad over road[i], i = from .. to
NextFinalIndex(color, road, finalIndex) ==
  IF finalIndex > -2 \/ (road.color = color /\ road.exit) THEN finalIndex + 1 ELSE finalIndex

RECURSIVE walk(_, _, _, _, _)
walk(color, i, to, finalIndex, squaresIds) ==
  IF i > to THEN [finalIndex |-> finalIndex, squaresIds |-> squaresIds]
  ELSE walk(color, i + 1, to, NextFinalIndex(color, Road[i + 1], finalIndex),
            Append(squaresIds,
                   IF NextFinalIndex(color, Road[i + 1], finalIndex) >= 0
                   THEN FinalId(color, NextFinalIndex(color, Road[i + 1], finalIndex))
                   ELSE Road[i + 1].id))

\* the second loop: the squares past the last road index
Overlay(color, targetIndex, first) ==
  walk(color, 0,
       (IF targetIndex > LastRoadIndex THEN targetIndex - LastRoadIndex ELSE 0) - 1,
       first.finalIndex, first.squaresIds)

\* the squares a road move visits (moveRoad's squaresIds)
roadPath(color, squareId, roadIndex, result) ==
  Overlay(color, roadIndex + result,
          walk(color, roadIndex + 1,
               IF roadIndex + result <= LastRoadIndex THEN roadIndex + result ELSE LastRoadIndex,
               IF Some(Road, LAMBDA r : r.id = squareId /\ r.color = color /\ r.exit)
               THEN -1 ELSE -2,
               <<>>)).squaresIds

\* pawnToSmash goes back to its initial square and is recorded in movePawn
Smashed(game, pawnToSmash) ==
  IF pawnToSmash.color = NoColor THEN game
  ELSE [game EXCEPT
          !.board.pawns[pawnToSmash.color][pawnToSmash.index + 1].squareId =
             InitialId(pawnToSmash.color, pawnToSmash.index),
          !.board.movePawn.smash = pawnToSmash]

\* moveRoad once the pawn stands on `road`
RoadSmash(db, game, road, pawn) ==
  Arrived(db, Smashed(game, smashPawn(game, road, pawn)), pawn)

RoadLand(db, game, pawn, squaresIds, road) ==
  IF road.id = NoSquare THEN Reject(db, Thrown)
  ELSE RoadSmash(db,
                 [game EXCEPT
                    !.board.pawns[pawn.color] =
                       [ClearActions(@) EXCEPT
                          ![pawn.index + 1].squareId = road.id,
                          ![pawn.index + 1].endReached = (road.id = FinalId(pawn.color, 5))],
                    !.board.movePawn = MovePawn(pawn.color, pawn.index, pawn.squareId, squaresIds)],
                 road,
                 [pawn EXCEPT !.squareId = road.id,
                              !.endReached = (road.id = FinalId(pawn.color, 5)),
                              !.action = NoAction])

RoadWalk(db, game, pawn, squaresIds) ==
  RoadLand(db, game, pawn, squaresIds, FindSquare(pawn.color, squaresIds[Len(squaresIds)]))

\* pawn is the pawn before the move
RoadMoveOf(db, game, pawn) ==
  RoadWalk(db, removeKaryogamyIfNeeded(removeMitosisIfNeeded(game, pawn), pawn), pawn,
           roadPath(pawn.color, pawn.squareId, getSquareIndex(pawn), game.dice.result))

RoadMove(db, validation, id, pawnIndex) ==
  IF validation.error # "" THEN Reject(db, validation.error)
  ELSE RoadMoveOf(db, validation.game,
                  PawnAt(validation.game, PlayerColor(validation.game, id), pawnIndex))

moveRoad(db, id, pawnIndex) == RoadMove(db, validateRoadMove(db, id, pawnIndex), id, pawnIndex)

RECURSIVE DelAll(_, _)
DelAll(ix, players) ==
  IF players = <<>> THEN ix ELSE DelAll(Del(ix, Head(players).socketId), Tail(players))

\* movedPawn from the check of the winners on
MovedWinner(db, game) ==
  IF \A k \in 1 .. 3 : game.winners[k] # NoColor
  THEN Done(Del(db.store, game.id), DelAll(db.index, game.players), <<game>>)
  ELSE IF game.dice.result # 6 \/ game.dice.count > 2
       THEN PassTurn(db, [game EXCEPT !.dice.count = 0])
  ELSE Saved(db, game)

MovedCleared(db, game, id) ==
  IF PlayerColor(game, id) = NoColor THEN Reject(db, Thrown)
  ELSE MovedWinner(db,
         IF Every(game.board.pawns[PlayerColor(game, id)], LAMBDA p : p.endReached)
         THEN [game EXCEPT !.winners[getWinnerPosition(game.winners)] = PlayerColor(game, id)]
         ELSE game)

MovedPawnOf(db, validation, id) ==
  IF id # validation.game.current THEN Reject(db, "")
  ELSE IF validation.error # "" THEN Reject(db, validation.error)
  ELSE MovedCleared(db,
         [clearMutations(clearMutations(validation.game, "mitosis"), "karyogamy") EXCEPT
            !.board.movePawn = NoMove,
            !.dice.ableToRoll = TRUE],
         id)

movedPawn(db, id) == MovedPawnOf(db, validateMovedPawn(db, id), id)

handleDisconnect(db, id) ==
  IF id \notin DOMAIN db.index THEN Done(db.store, db.index, <<>>)
  ELSE IF db.index[id] \notin DOMAIN db.store THEN Done(db.store, Del(db.index, id), <<>>)
  ELSE IF Len(db.store[db.index[id]].players) = 1
       THEN Done(Del(db.store, db.index[id]), Del(db.index, id), <<>>)
  ELSE Saved([db EXCEPT !.index = Del(@, id)],
             [db.store[db.index[id]] EXCEPT !.players = SelectSeq(@, LAMBDA p : p.socketId # id)])

\* ------------------------------------------------------------------ state
VARIABLES
  store,      \* redis: game id -> Game
  index,      \* redis: socket id -> game id
  nextId,     \* the next id randomUUID hands out
  gone,       \* sockets that have disconnected
  emitted,    \* the games broadcast (game:updated) by the last accepted action
  lastEvent,  \* the last step of a handler, or of redis (see Event)
  armed,      \* per game: the sessions whose accepted roll no pawn move has used yet
  script,     \* the requests the clients send first, in order
  fuel,       \* turn actions left once the script is over
  churn,      \* lobby actions left once the script is over
  calls,      \* the bag of the handler calls suspended at an await (see Call)
  served      \* redis when no call was open, and the calls finished since

vars ==
  <<store, index, nextId, gone, emitted, lastEvent, armed, script, fuel, churn, calls, served>>

\* ----------------------------------------------------------------- world
\* The state as one value, so that a handler call is a function of it.
World ==
  [store |-> store, index |-> index, nextId |-> nextId, gone |-> gone,
   emitted |-> emitted, lastEvent |-> lastEvent, armed |-> armed]

NoGameId == 0
Db(w) == [store |-> w.store, index |-> w.index]
GameOf(w, s) == IF s \in DOMAIN w.index THEN w.index[s] ELSE NoGameId
TurnKinds == {"roll", "rollResult", "moveInitial", "moveRoad", "moveFinal", "moved"}
MoveKinds == {"moveInitial", "moveRoad", "moveFinal"}

\* What is kept of an accepted action: its kind, the session and the game, and
\* the game as the handler loaded it (roster size, turn holder, unused rolls).
Event(kind, s, g, seats, holder, rolled) ==
  [kind |-> kind, session |-> s, game |-> g, seats |-> seats, holder |-> holder, armed |-> rolled]
LobbyEvent(kind, s, g) == Event(kind, s, g, 0, NoSession, {})
TurnEvent(w, kind, s, rolled) ==
  IF GameOf(w, s) \in DOMAIN w.store
  THEN Event(kind, s, GameOf(w, s), Len(w.store[GameOf(w, s)].players),
             w.store[GameOf(w, s)].current, rolled)
  ELSE Event(kind, s, GameOf(w, s), 0, NoSession, rolled)

\* an accepted call o: its writes reach redis and its broadcasts go out
Accept(w, ok, o) ==
  [ok |-> ok /\ o.ok,
   world |-> [w EXCEPT !.store = o.store, !.index = o.index, !.emitted = o.emits]]

DoCreate(w, s) ==
  Accept([w EXCEPT !.nextId = @ + 1, !.lastEvent = LobbyEvent("create", s, w.nextId)],
         s \notin w.gone /\ w.nextId <= MaxGames,
         createGame(Db(w), s, w.nextId))

DoJoin(w, s, g) ==
  Accept([w EXCEPT !.lastEvent = LobbyEvent("join", s, g)], s \notin w.gone, joinGame(Db(w), s, g))

DoColor(w, s, c) ==
  Accept([w EXCEPT !.lastEvent = LobbyEvent("color", s, GameOf(w, s))],
         s \notin w.gone, chooseColor(Db(w), s, c))

DoDisconnect(w, s) ==
  Accept([w EXCEPT !.gone = @ \cup {s}, !.lastEvent = LobbyEvent("disconnect", s, GameOf(w, s))],
         s \notin w.gone, handleDisconnect(Db(w), s))

DoRoll(w, s, roll) ==
  Accept([w EXCEPT !.armed[GameOf(w, s)] = @ \cup {s},
                   !.lastEvent = TurnEvent(w, "roll", s, {})],
         s \notin w.gone, rollDice(Db(w), s, roll))

DoRollResult(w, s) ==
  Accept([w EXCEPT !.lastEvent = TurnEvent(w, "rollResult", s, {})],
         s \notin w.gone, rollResult(Db(w), s))

\* an applied pawn move uses up the rolls accepted since the move before it
Moving(w, kind, s) ==
  [w EXCEPT !.armed[GameOf(w, s)] = {},
            !.lastEvent = TurnEvent(w, kind, s, w.armed[GameOf(w, s)])]

DoMoveInitial(w, s, i) == Accept(Moving(w, "moveInitial", s), s \notin w.gone, moveInitial(Db(w), s, i))
DoMoveRoad(w, s, i) == Accept(Moving(w, "moveRoad", s), s \notin w.gone, moveRoad(Db(w), s, i))
DoMoveFinal(w, s, i) == Accept(Moving(w, "moveFinal", s), s \notin w.gone, moveFinal(Db(w), s, i))

DoMoved(w, s) ==
  Accept([w EXCEPT !.lastEvent = TurnEvent(w, "moved", s, {})],
         s \notin w.gone, movedPawn(Db(w), s))

\* ---------------------------------------------------------------- actions
\* A request is <<kind, session, argument>>.  While a script is left, the
\* clients send its requests in order, each one once the one before it was
\* served; after it they send any request, within the budgets.
Scripted(req) ==
  /\ calls = EmptyBag
  /\ Head(script) = req
  /\ script' = Tail(script)
  /\ UNCHANGED <<fuel, churn>>
Lobby(req) ==
  IF script # <<>> THEN Scripted(req)
  ELSE churn > 0 /\ churn' = churn - 1 /\ UNCHANGED <<fuel, script>>
Turn(req) ==
  IF script # <<>> THEN Scripted(req)
  ELSE fuel > 0 /\ fuel' = fuel - 1 /\ UNCHANGED <<churn, script>>

\* the handler ran to its end: redis and the clients see what it did
Step(r) ==
  /\ r.ok
  /\ store' = r.world.store
  /\ index' = r.world.index
  /\ nextId' = r.world.nextId
  /\ gone' = r.world.gone
  /\ emitted' = r.world.emitted
  /\ lastEvent' = r.world.lastEvent
  /\ armed' = r.world.armed
  /\ UNCHANGED calls

\* the handler of a request, run on redis as w holds it
Do(w, req) ==
  CASE req[1] = "create" -> DoCreate(w, req[2])
    [] req[1] = "join" -> DoJoin(w, req[2], req[3])
    [] req[1] = "color" -> DoColor(w, req[2], req[3])
    [] req[1] = "disconnect" -> DoDisconnect(w, req[2])
    [] req[1] = "roll" -> DoRoll(w, req[2], req[3])
    [] req[1] = "rollResult" -> DoRollResult(w, req[2])
    [] req[1] = "moveInitial" -> DoMoveInitial(w, req[2], req[3])
    [] req[1] = "moveRoad" -> DoMoveRoad(w, req[2], req[3])
    [] req[1] = "moveFinal" -> DoMoveFinal(w, req[2], req[3])
    [] req[1] = "moved" -> DoMoved(w, req[2])

\* A handler is async: it sends its gets to redis and returns to the event
\* loop at each await; the handlers of other messages, of any socket, run in
\* between.  The one redis client serves the commands in the order they were
\* sent, so a get answers with redis as it was when the handler sent it.  An
\* open call is the socket, the requests it may be (nothing looks at the kind of
\* the message before the handler resumes on the game), the await it is
\* suspended at, and what its gets have answered: the game id of the socket, the
\* game, and the game the socket leaves.
Call(s, asked, stage, gid, game) ==
  [s |-> s, asked |-> asked, stage |-> stage, gid |-> gid, game |-> game, old |-> EmptyMap]

\* the turn requests and the choices of color a socket may send
TurnAsks(s) ==
  {<<"roll", s, roll>> : roll \in 1 .. DiceFaces} \cup {<<"rollResult", s>>, <<"moved", s>>}
    \cup {<<kind, s, i>> : kind \in MoveKinds, i \in PawnIndexes}
ColorAsks(s) == {<<"color", s, c>> : c \in Colors}

\* no other message can arrive before the one that arrives now is served
Alone ==
  /\ calls = EmptyBag
  /\ Len(script) > 1 \/ fuel + churn = (IF script = <<>> THEN 1 ELSE 0)

\* the record of the calls since no call was open
Served(req) ==
  served' = IF calls = EmptyBag THEN [base |-> Db(World), done |-> <<req>>]
            ELSE [served EXCEPT !.done = Append(@, req)]

\* a message arrived and its handler sent its first gets
Sent(c) ==
  /\ c.s \notin gone
  /\ BagCardinality(calls) < MaxCalls
  /\ calls' = calls (+) SetToBag({c})
  /\ served' = IF calls = EmptyBag THEN [base |-> Db(World), done |-> <<>>] ELSE served
  /\ lastEvent' = LobbyEvent("ask", c.s, NoGameId)
  /\ UNCHANGED <<store, index, nextId, emitted, armed>>

\* validateGame sends get(id).  A socket without a game is refused, and a
\* refused call leaves nothing behind: it is no step.
Ask(s, asked) ==
  /\ s \in DOMAIN index
  /\ Alone => \E req \in asked : Do(World, req).ok
  /\ Sent(Call(s, asked, "id", index[s], EmptyMap))
  /\ UNCHANGED gone

AskTurn(s) ==
  IF script # <<>>
  THEN Head(script)[1] \in TurnKinds /\ Head(script)[2] = s
         /\ Turn(Head(script)) /\ Ask(s, {Head(script)})
  ELSE Turn(<<>>) /\ Ask(s, TurnAsks(s))

AskColor(s) ==
  IF script # <<>>
  THEN Head(script)[1] = "color" /\ Head(script)[2] = s
         /\ Lobby(Head(script)) /\ Ask(s, {Head(script)})
  ELSE Lobby(<<>>) /\ Ask(s, ColorAsks(s))

\* joinGame sends get(gameId) and get(id) together; what they answer settles
\* whether it refuses
AskJoin(s, g) ==
  /\ Lobby(<<"join", s, g>>)
  /\ Do(World, <<"join", s, g>>).ok
  /\ Sent(Call(s, {<<"join", s, g>>}, IF s \in DOMAIN index THEN "old" ELSE "game",
               GameOf(World, s), Put(EmptyMap, g, store[g])))
  /\ UNCHANGED gone

\* handleDisconnect sends get(id); with no game id it returns
AskLeave(s) ==
  /\ Lobby(<<"disconnect", s>>)
  /\ gone' = gone \cup {s}
  /\ IF s \in DOMAIN index
     THEN Sent(Call(s, {<<"disconnect", s>>}, "id", index[s], EmptyMap))
     ELSE /\ s \notin gone
          /\ emitted' = <<>>
          /\ lastEvent' = LobbyEvent("disconnect", s, NoGameId)
          /\ Served(<<"disconnect", s>>)
          /\ UNCHANGED <<store, index, nextId, armed, calls>>

\* redis as the open call c holds it.  Its copy of the game is under the id
\* it read for the socket; a join holds the game it leaves apart from the game
\* it joins (the two may be one game read at two instants), under NoGameId.
ViewStore(c) == IF c.old = EmptyMap THEN c.game ELSE Put(c.game, NoGameId, c.old[c.gid])
ViewIndex(c) ==
  IF c.asked \subseteq {<<"join", c.s, g>> : g \in GameIds}
  THEN IF c.old = EmptyMap THEN Del(index, c.s) ELSE Put(index, c.s, NoGameId)
  ELSE Put(index, c.s, c.gid)
ViewWorld(c) ==
  [World EXCEPT !.store = ViewStore(c), !.index = ViewIndex(c), !.gone = @ \ {c.s}]

\* the call goes on or, when it returns here, is over
Goes(c, next, on) ==
  calls' = IF on THEN (calls (-) SetToBag({c})) (+) SetToBag({next}) ELSE calls (-) SetToBag({c})

\* get(id) has answered and the handler sends get(gameId); handleDisconnect
\* sends del(id) with it.  A call that is refused on the game it gets is over.
ReadGame(c, next) ==
  /\ c.stage = "id"
  /\ IF c.asked = {<<"disconnect", c.s>>}
     THEN /\ index' = Del(index, c.s)
          /\ Goes(c, next, c.gid \in DOMAIN store)
          /\ IF c.gid \in DOMAIN store
             THEN lastEvent' = LobbyEvent("read", c.s, NoGameId) /\ UNCHANGED <<emitted, served>>
             ELSE /\ lastEvent' = LobbyEvent("disconnect", c.s, c.gid)
                  /\ emitted' = <<>>
                  /\ served' = [served EXCEPT !.done = Append(@, <<"disconnect", c.s>>)]
     ELSE /\ Goes(c, next, \E req \in c.asked : Do(ViewWorld(next), req).ok)
          /\ lastEvent' = LobbyEvent("read", c.s, NoGameId)
          /\ UNCHANGED <<index, emitted, served>>
  /\ UNCHANGED <<store, nextId, gone, armed, script, fuel, churn>>

Read(c) ==
  ReadGame(c, [c EXCEPT !.stage = "game",
                        !.game = IF c.gid \in DOMAIN store THEN Put(EmptyMap, c.gid, store[c.gid])
                                 ELSE EmptyMap])

\* joinGame has pushed the player on its copy and sends get(oldGameId)
ReadOld(c) ==
  /\ c.stage = "old"
  /\ Goes(c, [c EXCEPT !.stage = "game",
                       !.old = IF c.gid \in DOMAIN store THEN Put(EmptyMap, c.gid, store[c.gid])
                               ELSE EmptyMap], TRUE)
  /\ lastEvent' = LobbyEvent("read", c.s, NoGameId)
  /\ UNCHANGED <<store, index, nextId, gone, emitted, armed, script, fuel, churn, served>>

\* redis after the sets and dels of a call on the games `keys`: they take the
\* values of `out`, or go; the other keys keep theirs
Written(cur, out, keys) ==
  [k \in ((DOMAIN cur) \ keys) \cup (keys \cap DOMAIN out) |-> IF k \in keys THEN out[k] ELSE cur[k]]

\* the games a call holds a copy of
Held(c) == {c.game[k].id : k \in DOMAIN c.game} \cup {c.old[k].id : k \in DOMAIN c.old}

\* The last get has answered: the handler resumes on its copies, mutates them,
\* broadcasts and sends its sets and dels.  A join sets the key of the socket
\* whatever it holds; a disconnect has sent its del(id) already; a game that
\* ends takes the keys of its players with it.
Resume(c, req, r) ==
  /\ r.ok
  /\ Goes(c, c, FALSE)
  /\ store' = Written(store, r.world.store, Held(c))
  /\ index' = IF req[1] = "join" THEN Put(index, c.s, req[3])
              ELSE IF req[1] = "disconnect" \/ r.world.index = ViewIndex(c) THEN index
              ELSE r.world.index
  /\ emitted' = r.world.emitted
  /\ lastEvent' = r.world.lastEvent
  /\ armed' = r.world.armed
  /\ served' = [served EXCEPT !.done = Append(@, req)]
  /\ UNCHANGED <<nextId, gone, script, fuel, churn>>

Resumes(c, req) ==
  /\ c.s = req[2]
  /\ c.stage = "game"
  /\ req \in c.asked
  /\ Resume(c, req, Do(ViewWorld(c), req))

\* redis drops a game that was not saved for REDIS_EXPIRATION_TIME seconds,
\* whatever the handlers are at; the keys of its sockets carry no expiry and
\* stay.  The record of the calls starts anew on what redis holds then.
Expire(g) ==
  /\ g \in DOMAIN store
  /\ store' = Del(store, g)
  /\ emitted' = <<>>
  /\ lastEvent' = LobbyEvent("expire", NoSession, g)
  /\ served' = [base |-> [store |-> Del(store, g), index |-> index], done |-> <<>>]
  /\ UNCHANGED <<index, nextId, gone, armed, script, fuel, churn, calls>>

\* the module is destroyed: redis.flushAll() drops every key, of games and of
\* sockets, whatever the handlers are at; a handler that is open goes on
onModuleDestroy ==
  /\ store' = EmptyMap
  /\ index' = EmptyMap
  /\ emitted' = <<>>
  /\ lastEvent' = LobbyEvent("destroy", NoSession, NoGameId)
  /\ served' = [base |-> [store |-> EmptyMap, index |-> EmptyMap], done |-> <<>>]
  /\ UNCHANGED <<nextId, gone, armed, script, fuel, churn, calls>>

\* createGame has no get: it sets its keys when the message arrives
CreateGame(s) ==
  Lobby(<<"create", s>>) /\ Step(DoCreate(World, s)) /\ Served(<<"create", s>>)
JoinGame(s, g) == \E call \in BagToSet(calls) : Resumes(call, <<"join", s, g>>)
ChooseColor(s, c) == \E call \in BagToSet(calls) : Resumes(call, <<"color", s, c>>)
Disconnect(s) == \E call \in BagToSet(calls) : Resumes(call, <<"disconnect", s>>)
RollDice(s, roll) == \E call \in BagToSet(calls) : Resumes(call, <<"roll", s, roll>>)
RollResult(s) == \E call \in BagToSet(calls) : Resumes(call, <<"rollResult", s>>)
MoveInitial(s, i) == \E call \in BagToSet(calls) : Resumes(call, <<"moveInitial", s, i>>)
MoveRoad(s, i) == \E call \in BagToSet(calls) : Resumes(call, <<"moveRoad", s, i>>)
MoveFinal(s, i) == \E call \in BagToSet(calls) : Resumes(call, <<"moveFinal", s, i>>)
MovedPawn(s) == \E call \in BagToSet(calls) : Resumes(call, <<"moved", s>>)

\* ---------------------------------------------------------------- scripts
\* a whole turn of s on pawn i: roll, confirm, move, acknowledge
Act(s, face, move, i) ==
  <<<<"roll", s, face>>, <<"rollResult", s>>, <<move, s, i>>, <<"moved", s>>>>
\* a player with nothing to move rolls a 2; confirming it passes the turn
RECURSIVE Passes(_)
Passes(others) ==
  IF others = <<>> THEN <<>>
  ELSE <<<<"roll", Head(others), 2>>, <<"rollResult", Head(others)>>>> \o Passes(Tail(others))
\* 6, 6 and 5 on the road: the third roll ends the chain
Stretch(s, i) == Act(s, 6, "moveRoad", i) \o Act(s, 6, "moveRoad", i) \o Act(s, 5, "moveRoad", i)
\* Pawn i of s goes around the board: in on a 6, then 6 and 5; 6, 6, 5 twice
\* more, which leaves it 5 cells before its exit.  The others pass in between.
Lap(s, i, others) ==
  Act(s, 6, "moveInitial", i) \o Act(s, 6, "moveRoad", i) \o Act(s, 5, "moveRoad", i)
    \o Passes(others) \o Stretch(s, i) \o Passes(others) \o Stretch(s, i) \o Passes(others)
\* ... and home: a 6 into the lane and a 5 to its end, which passes the turn
Home(s, i, others) == Lap(s, i, others) \o Act(s, 6, "moveRoad", i) \o Act(s, 5, "moveFinal", i)
\* the first n pawns of s home, one after the other
RECURSIVE HomeFirst(_, _, _)
HomeFirst(s, n, others) ==
  IF n = 0 THEN <<>>
  ELSE HomeFirst(s, n - 1, others) \o Home(s, n - 1, others) \o Passes(others)
\* all the pawns of s home: the turn is then with the next player
HomeAll(s, others) == HomeFirst(s, PawnsPerColor - 1, others) \o Home(s, PawnsPerColor - 1, others)

\* four players seated, in the order of their socket ids
Seated == <<<<"create", 1>>, <<"join", 2, 1>>, <<"join", 3, 1>>, <<"join", 4, 1>>>>
\* every player on the color of its seat: the start of play
Colored == Seated \o [k \in 1 .. MaxPlayers |-> <<"color", k, k - 1>>]
\* a full lobby where only the first player has a color
OneColor == Seated \o <<<<"color", 1, 0>>>>
\* a lobby of two, both with a color
Pair == <<<<"create", 1>>, <<"join", 2, 1>>, <<"color", 1, 0>>, <<"color", 2, 1>>>>
\* a full lobby where a roll followed each of the first three choices of color
Chain ==
  Seated \o <<<<"color", 1, 0>>, <<"roll", 1, 3>>, <<"color", 2, 1>>, <<"roll", 1, 3>>,
              <<"color", 3, 2>>, <<"roll", 1, 3>>>>
\* the first color has three pawns home and has moved the last one from its
\* exit cell home on a 6, which it has not acknowledged
LastPawn ==
  Colored \o HomeFirst(1, PawnsPerColor - 1, <<2, 3, 4>>) \o Lap(1, PawnsPerColor - 1, <<2, 3, 4>>)
    \o Act(1, 5, "moveRoad", PawnsPerColor - 1) \o Passes(<<2, 3, 4>>)
    \o <<<<"roll", 1, 6>>, <<"rollResult", 1>>, <<"moveRoad", 1, PawnsPerColor - 1>>>>
\* the first color is home; the second has three pawns home and the last one
\* on the first cell of its lane, with a 5 rolled and confirmed
SecondLane ==
  Colored \o HomeAll(1, <<2, 3, 4>>)
    \o HomeFirst(2, PawnsPerColor - 1, <<3, 4>>) \o Lap(2, PawnsPerColor - 1, <<3, 4>>)
    \o Act(2, 6, "moveRoad", PawnsPerColor - 1) \o <<<<"roll", 2, 5>>, <<"rollResult", 2>>>>
\* two colors are home; the third has moved its last pawn from the first cell
\* of its lane to the last on a 5, and has not acknowledged the move
ThirdLane ==
  Colored \o HomeAll(1, <<2, 3, 4>>) \o HomeAll(2, <<3, 4>>)
    \o HomeFirst(3, PawnsPerColor - 1, <<4>>) \o Lap(3, PawnsPerColor - 1, <<4>>)
    \o Act(3, 6, "moveRoad", PawnsPerColor - 1)
    \o <<<<"roll", 3, 5>>, <<"rollResult", 3>>, <<"moveFinal", 3, PawnsPerColor - 1>>>>

\* the start of play, where the first player confirms the dice as the game was
\* created with it (a 1) and then rolls a 3
Unmoved == Colored \o <<<<"rollResult", 1>>, <<"roll", 1, 3>>>>

\* the first color has entered two pawns on two 6s (both on its entrance cell),
\* then rolled a 2 and confirmed it
Parted ==
  Colored \o Act(1, 6, "moveInitial", 0) \o Act(1, 6, "moveInitial", 1)
    \o <<<<"roll", 1, 2>>, <<"rollResult", 1>>>>

\* the first player confirms the dice of the new game (a 1) before each move and
\* never rolls nor acknowledges: pawns 0 and 1 enter, both step to the next
\* cell, pawn 2 enters
Regrouped ==
  Colored \o <<<<"rollResult", 1>>, <<"moveInitial", 1, 0>>, <<"rollResult", 1>>,
               <<"moveInitial", 1, 1>>, <<"rollResult", 1>>, <<"moveRoad", 1, 0>>,
               <<"rollResult", 1>>, <<"moveRoad", 1, 1>>, <<"rollResult", 1>>,
               <<"moveInitial", 1, 2>>>>

\* a pawn enters, or steps on the ring, on the dice as they are: its player
\* confirms the result and moves, with no roll and no acknowledgement
Enter(s, i) == <<<<"rollResult", s>>, <<"moveInitial", s, i>>>>
RECURSIVE Steps(_, _, _)
Steps(s, i, n) ==
  IF n = 0 THEN <<>> ELSE <<<<"rollResult", s>>, <<"moveRoad", s, i>>>> \o Steps(s, i, n - 1)
\* the players acknowledge one after the other: on a dice result other than 6
\* each one passes the turn
Acks(players) == [k \in 1 .. Len(players) |-> <<"moved", players[k]>>]

\* On the dice of the new game (a 1) and with no roll: pawn 3 of the first
\* color enters and steps to road-9, and its player confirms once more (the
\* pawn is to move on the road) but acknowledges instead; pawn 0 of the last
\* color enters and steps around to road-9, where it captures; its player
\* acknowledges.  The captured pawn is on its initial cell, still to move on
\* the road, and its player holds the turn.
Stale ==
  Colored \o Enter(1, 3) \o Steps(1, 3, 1) \o <<<<"rollResult", 1>>>> \o Acks(<<1, 2, 3>>)
    \o Enter(4, 0) \o Steps(4, 0, SegmentLen + 1) \o Acks(<<4>>)

\* On the dice of the new game (a 1) and with no roll: pawn 0 of the last
\* color enters and steps around to road-9; pawns 0 and 1 of the first color
\* enter (both on road-8), and their player confirms once more: both are to
\* move on the road, to the cell of the pawn of the last color.
Twins ==
  Colored \o Acks(<<1, 2, 3>>) \o Enter(4, 0) \o Steps(4, 0, SegmentLen + 1) \o Acks(<<4>>)
    \o Enter(1, 0) \o Enter(1, 1) \o <<<<"rollResult", 1>>>>

\* two lobbies: the first of two players, the second of one
Rivals == <<<<"create", 1>>, <<"join", 2, 1>>, <<"create", 3>>>>
\* a lobby of three
Trio == <<<<"create", 1>>, <<"join", 2, 1>>, <<"join", 3, 1>>>>
\* a full lobby where the last player has no color yet
AlmostColored == Seated \o [k \in 1 .. (MaxPlayers - 1) |-> <<"color", k, k - 1>>]

\* the scripts that are followed by turn requests only
TurnScripts == {OneColor, SecondLane, Unmoved, Parted, Regrouped, Stale, Twins}
Scripts ==
  {<<>>, <<<<"create", 1>>>>, Pair, Rivals, Chain, LastPawn, ThirdLane} \cup TurnScripts

\* ------------------------------------------------------------------- spec
\* the server after start-up: nothing in redis
FreshWorld ==
  [store |-> EmptyMap, index |-> EmptyMap, nextId |-> 1, gone |-> {},
   emitted |-> <<>>, lastEvent |-> LobbyEvent("init", NoSession, NoGameId),
   armed |-> [g \in {NoGameId} \cup GameIds |-> {}]]

Start(w) ==
  /\ store = w.store
  /\ index = w.index
  /\ nextId = w.nextId
  /\ gone = w.gone
  /\ emitted = w.emitted
  /\ lastEvent = w.lastEvent
  /\ armed = w.armed
  /\ calls = EmptyBag
  /\ served = [base |-> Db(w), done |-> <<>>]

\* After a script of TurnScripts the clients send MaxCalls turn requests;
\* after any other script, MaxChurn lobby requests and the rest of MaxCalls as
\* turn requests.  The last request of the script may still be open then.
Init ==
  /\ Start(FreshWorld)
  /\ script \in Scripts
  /\ fuel = (IF script \in TurnScripts THEN MaxCalls ELSE MaxCalls - MaxChurn)
  /\ churn = (IF script \in TurnScripts THEN 0 ELSE MaxChurn)

\* Messages arrive whenever the clients send them, up to MaxCalls handlers
\* open at once; an open handler goes on whenever redis has answered it.
Next ==
  \/ \E s \in Sessions : CreateGame(s)
  \/ \E s \in Sessions, g \in GameIds : AskJoin(s, g)
  \/ \E s \in Sessions : AskColor(s)
  \/ \E s \in Sessions : AskTurn(s)
  \/ \E s \in Sessions : AskLeave(s)
  \/ \E c \in BagToSet(calls) : Read(c)
  \/ \E c \in BagToSet(calls) : ReadOld(c)
  \/ \E s \in Sessions, g \in GameIds : JoinGame(s, g)
  \/ \E s \in Sessions, c \in Colors : ChooseColor(s, c)
  \/ \E s \in Sessions : Disconnect(s)
  \/ \E s \in Sessions, roll \in 1 .. DiceFaces : RollDice(s, roll)
  \/ \E s \in Sessions : RollResult(s)
  \/ \E s \in Sessions, i \in PawnIndexes : MoveInitial(s, i)
  \/ \E s \in Sessions, i \in PawnIndexes : MoveRoad(s, i)
  \/ \E s \in Sessions, i \in PawnIndexes : MoveFinal(s, i)
  \/ \E s \in Sessions : MovedPawn(s)
  \/ \E g \in GameIds : Expire(g)
  \/ onModuleDestroy

Spec == Init /\ [][Next]_vars

\* ============================================================ road moves
\* A second specification for the moves of a pawn: from the empty server the
\* clients play a script that walks a pawn from its entrance along the ring to
\* its lane, and send the turn requests that may be open (MaxCalls) together
\* with the last move of the walk; or they start play and the players send
\* MaxTurn turn requests, as they like.  Redis may drop a game, and the module
\* may be destroyed, at any step.
RingLen == LastRoadIndex + 1
ExitOf(c) == SegmentLen * c + ExitOffset
\* the steps from the entrance of a color around the ring to its exit
TrackLen == (ExitOffset - EntranceOffset + RingLen) % RingLen
\* the players before the one of color c acknowledge: it gets the turn
Turns(c) == Acks([k \in 1 .. c |-> k])

\* Pawn 0 of color c enters, takes k steps of one cell and then, on a roll of
\* d, steps of d cells until it is in its lane: over the scripts, a road move
\* of every d from every ring cell of the track of c.
Walk(c, k, d) ==
  Colored \o Turns(c) \o Enter(c + 1, 0) \o Steps(c + 1, 0, k)
    \o (IF d = 1 THEN <<>> ELSE <<<<"roll", c + 1, d>>>>)
    \o Steps(c + 1, 0, ((TrackLen - k) \div d) + 1)
RoadScripts ==
  UNION {{Walk(c, k, d) : c \in Colors, k \in 0 .. (d - 1)} : d \in 1 .. DiceFaces}

InitRoad ==
  /\ Start(FreshWorld)
  /\ script \in RoadScripts \cup {Colored}
  /\ fuel = (IF script = Colored THEN MaxTurn ELSE MaxCalls - 1)
  /\ churn = 0

NextRoad ==
  \/ \E s \in Sessions : CreateGame(s)
  \/ \E s \in Sessions, g \in GameIds : AskJoin(s, g)
  \/ \E s \in Sessions : AskColor(s)
  \/ \E s \in Sessions : AskTurn(s)
  \/ \E c \in BagToSet(calls) : Read(c)
  \/ \E s \in Sessions, g \in GameIds : JoinGame(s, g)
  \/ \E s \in Sessions, c \in Colors : ChooseColor(s, c)
  \/ \E s \in Sessions, roll \in 1 .. DiceFaces : RollDice(s, roll)
  \/ \E s \in Sessions : RollResult(s)
  \/ \E s \in Sessions, i \in PawnIndexes : MoveInitial(s, i)
  \/ \E s \in Sessions, i \in PawnIndexes : MoveRoad(s, i)
  \/ \E s \in Sessions : MovedPawn(s)
  \/ \E g \in GameIds : Expire(g)
  \/ onModuleDestroy

SpecRoad == InitRoad /\ [][NextRoad]_vars

\* ====================================================== interleaved calls
\* A third specification for the lobby alone: MaxCalls messages of any
\* sockets arrive on a lobby, so that two calls on one game interleave between
\* their gets and their sets.
InitRace ==
  /\ Start(FreshWorld)
  /\ script \in {<<<<"create", 1>>>>, Pair, Rivals, Trio, AlmostColored}
  /\ fuel = 0
  /\ churn = MaxCalls

NextRace ==
  \/ \E s \in Sessions : CreateGame(s)
  \/ \E s \in Sessions, g \in GameIds : AskJoin(s, g)
  \/ \E s \in Sessions : AskColor(s)
  \/ \E s \in Sessions : AskLeave(s)
  \/ \E c \in BagToSet(calls) : Read(c)
  \/ \E c \in BagToSet(calls) : ReadOld(c)
  \/ \E s \in Sessions, g \in GameIds : JoinGame(s, g)
  \/ \E s \in Sessions, c \in Colors : ChooseColor(s, c)
  \/ \E s \in Sessions : Disconnect(s)
  \/ \E g \in GameIds : Expire(g)
  \/ onModuleDestroy

SpecRace == InitRace /\ [][NextRace]_vars

\* =============================================================== claims
\* the game of the last accepted action, where it is still stored
LastGame == store[lastEvent.game]
\* the open call c takes the step
Stepped(c) == CopiesIn(c, calls') = CopiesIn(c, calls) - 1
HasLastGame == lastEvent.game \in DOMAIN store
ColorsOf(game) == {game.players[k].color : k \in 1 .. Len(game.players)}
\* the pawns standing on a square, as <<color, index>>
Standing(game, square) ==
  {p \in Colors \X PawnIndexes : PawnAt(game, p[1], p[2]).squareId = square}
\* every request a connected client may send, with its outcome put to Q
EveryTurnOutcome(Q(_), s) ==
  /\ \A roll \in 1 .. DiceFaces : Q(rollDice(Db(World), s, roll))
  /\ Q(rollResult(Db(World), s))
  /\ \A i \in PawnIndexes \cup {PawnsPerColor} :
       /\ Q(moveInitial(Db(World), s, i))
       /\ Q(moveRoad(Db(World), s, i))
       /\ Q(moveFinal(Db(World), s, i))
  /\ Q(movedPawn(Db(World), s))
EveryOutcome(Q(_)) ==
  \A s \in Sessions \ gone :
    /\ \A c \in Colors \cup {NoColor} : Q(chooseColor(Db(World), s, c))
    /\ \A g \in GameIds : Q(joinGame(Db(World), s, g))
    /\ EveryTurnOutcome(Q, s)

\* C1: a roll-dice is accepted only when the roster holds exactly 4 players,
\* every one of them with a color, the four colors pairwise distinct.
RollOnlyWhenAllColored ==
  (lastEvent.kind = "roll" /\ HasLastGame) =>
     /\ Len(LastGame.players) = MaxPlayers
     /\ NoColor \notin ColorsOf(LastGame)
     /\ Cardinality(ColorsOf(LastGame)) = MaxPlayers

\* C2: after a confirm-roll-result or a move-acknowledged that leaves the game
\* non-terminal, the session holding the turn belongs to a player whose color
\* is in no winners slot.
TurnSkipsFinishedColors ==
  (lastEvent.kind \in {"rollResult", "moved"} /\ HasLastGame) =>
     \A k \in 1 .. Len(LastGame.players) :
        (LastGame.players[k].socketId = LastGame.current /\ LastGame.players[k].color # NoColor)
           => LastGame.players[k].color \notin WinnerValues(LastGame.winners)

\* C3: every applied pawn move is preceded by an accepted roll-dice of the same
\* player with no other applied pawn move of the game in between (so none is
\* applied before the first roll).
MoveFollowsOwnRoll ==
  lastEvent.kind \in MoveKinds => lastEvent.session \in lastEvent.armed

\* C4: in every reachable state the dice roll count of every game is within
\* 0..3.
RollCountCapped == \A g \in DOMAIN store : store[g].dice.count \in 0 .. 3

\* C7: in every reachable state the winners slots are filled as a prefix and
\* no color is in two slots; a filled slot of a stored game is never
\* overwritten or cleared.
WinnersPrefix(winners) ==
  /\ \A k \in 2 .. 3 : winners[k] # NoColor => winners[k - 1] # NoColor
  /\ \A j, k \in 1 .. 3 : (j # k /\ winners[j] # NoColor) => winners[j] # winners[k]
WinnersKept ==
  \A g \in (DOMAIN store) \cap (DOMAIN store') : \A k \in 1 .. 3 :
     store[g].winners[k] # NoColor => store'[g].winners[k] = store[g].winners[k]
WinnersInOrder ==
  /\ [](\A g \in DOMAIN store : WinnersPrefix(store[g].winners))
  /\ [][WinnersKept]_vars

\* C8: a request that a handler refuses leaves the stored games and the
\* session index as they were and broadcasts nothing.
Traceless(o) == o.ok \/ (o.store = store /\ o.index = index /\ o.emits = <<>>)
RefusalsLeaveNoTrace == EveryOutcome(Traceless)
\* a seated player who does not hold the turn asks for a roll, and a full game
\* is asked for a seat
RefusedInPlay ==
  /\ \E s \in DOMAIN index : rollDice(Db(World), s, 1).error = "Not your turn"
  /\ \E s \in Sessions \ gone, g \in GameIds : joinGame(Db(World), s, g).error = "Game is full"

\* C9: every refused request is answered with a non-empty error message (an
\* exception is taken as answered by the framework).
Answered(o) == o.ok \/ o.error # ""
RefusalsAnswered == EveryOutcome(Answered)

\* C10: a turn-consuming action changes the game only when the requester holds
\* the turn and the roster has exactly 4 players.
TurnActionsByHolderOfFour ==
  lastEvent.kind \in TurnKinds =>
     (lastEvent.holder = lastEvent.session /\ lastEvent.seats = MaxPlayers)

\* C5: a road move captures if and only if the square it reaches is a ring
\* cell that is no safe zone, on which exactly one other pawn stood, of another
\* color; then that pawn alone goes back to its initial square.
Reached(game) == game.board.movePawn.squaresIds[Len(game.board.movePawn.squaresIds)]
Mover(game) == <<game.board.movePawn.color, game.board.movePawn.index>>
Met(before, after) == Standing(before, Reached(after)) \ {Mover(after)}
SentBack(before, after) ==
  {p \in Met(before, after) : PawnAt(after, p[1], p[2]).squareId = InitialId(p[1], p[2])}
CaptureDue(before, after) ==
  /\ Includes(Reached(after), "road")
  /\ ~Road[Reached(after)[3] + 1].safeZone
  /\ Cardinality(Met(before, after)) = 1
  /\ \A p \in Met(before, after) : p[1] # Mover(after)[1]
CaptureAsDue(before, after) ==
  /\ (SentBack(before, after) # {}) <=> CaptureDue(before, after)
  /\ (after.board.movePawn.smash # NoSmash) <=> CaptureDue(before, after)
  /\ Cardinality(SentBack(before, after)) <= 1
CaptureIffAloneUnsafe ==
  [][(lastEvent'.kind = "moveRoad" /\ lastEvent'.game \in DOMAIN store) =>
       CaptureAsDue(store[lastEvent'.game], store'[lastEvent'.game])]_vars

\* C6: the path of a road move of d steps from ring cell r has exactly d
\* squares: the next ring cells (from 51 on to 0) up to the exit of the color,
\* then final-c-0, final-c-1, ... in order, never past lane index 5.
PathOf(game) == game.board.movePawn.squaresIds
\* the steps from ring cell r to the exit of c
ToExit(c, r) == (ExitOf(c) + RingLen - r) % RingLen
ExpectedPath(c, r, d) ==
  [j \in 1 .. d |->
     IF j <= ToExit(c, r) THEN RoadId((r + j) % RingLen) ELSE FinalId(c, j - ToExit(c, r) - 1)]
PathAsExpected(game) ==
  /\ Len(PathOf(game)) = game.dice.result
  /\ PathOf(game) = ExpectedPath(game.board.movePawn.color,
                                 game.board.movePawn.startingSquareId[3], game.dice.result)
  /\ \A j \in 1 .. Len(PathOf(game)) :
        Includes(PathOf(game)[j], "final") => PathOf(game)[j][3] <= FinalLen - 1
RoadPathFollowsRing ==
  (lastEvent.kind = "moveRoad" /\ Includes(LastGame.board.movePawn.startingSquareId, "road"))
     => PathAsExpected(LastGame)
\* a road move went over the exit into the lane
PathIntoLane ==
  /\ lastEvent.kind = "moveRoad"
  /\ Includes(PathOf(LastGame)[1], "road")
  /\ Includes(Reached(LastGame), "final")

\* C11: an entry move is applied only on a dice result of 1 or 6, and leaves
\* the pawn on the entrance cell of its color with a path of that one cell; on
\* any other result a move-from-initial is refused and nothing is stored.
EntranceOf(c) == RoadId(SegmentLen * c + EntranceOffset)
EntryApplied(game) ==
  /\ game.dice.result \in {1, 6}
  /\ Includes(game.board.movePawn.startingSquareId, "initial")
  /\ game.board.movePawn.squaresIds = <<EntranceOf(game.board.movePawn.color)>>
  /\ PawnAt(game, game.board.movePawn.color, game.board.movePawn.index).squareId
       = EntranceOf(game.board.movePawn.color)
EntryRefused(s, i) ==
  /\ ~moveInitial(Db(World), s, i).ok
  /\ moveInitial(Db(World), s, i).store = store
EntryOnlyOnOneOrSix ==
  /\ lastEvent.kind = "moveInitial" => EntryApplied(LastGame)
  /\ \A s \in DOMAIN index, i \in PawnIndexes :
        (index[s] \in DOMAIN store /\ store[index[s]].dice.result \notin {1, 6})
           => EntryRefused(s, i)
\* a pawn has just entered the ring
EntryMade ==
  /\ lastEvent.kind = "moveInitial"
  /\ \E c \in Colors, i \in PawnIndexes : PawnAt(LastGame, c, i).squareId = EntranceOf(c)

\* C12: after a confirm-roll-result, if the acting color has no legal move for
\* the dice result (no initial pawn with a 1 or a 6, no pawn on the ring, no
\* lane pawn at index i < 5 with result <= 5 - i), the roll count is 0, the
\* dice may be rolled and the turn is with another player, whose color is in
\* no winners slot; otherwise the turn stays with the same player.
Movable(pawn, result) ==
  \/ Includes(pawn.squareId, "initial") /\ result \in {1, 6}
  \/ Includes(pawn.squareId, "road")
  \/ Includes(pawn.squareId, "final") /\ pawn.squareId[3] < 5 /\ result <= 5 - pawn.squareId[3]
HasLegalMove(game, color) ==
  \E i \in PawnIndexes : Movable(PawnAt(game, color, i), game.dice.result)
TurnPassed(game, from) ==
  /\ game.dice.count = 0
  /\ game.dice.ableToRoll
  /\ game.current # from
  /\ \A k \in 1 .. Len(game.players) :
        game.players[k].socketId = game.current
           => game.players[k].color \notin WinnerValues(game.winners)
ConfirmPassesWhenStuck ==
  (lastEvent.kind = "rollResult" /\ HasLastGame) =>
     IF HasLegalMove(LastGame, PlayerColor(LastGame, lastEvent.session))
     THEN LastGame.current = lastEvent.holder
     ELSE TurnPassed(LastGame, lastEvent.holder)

\* C13: a processed move-acknowledged of the turn holder, all four pawns of
\* whose color have endReached in the stored game, writes that color to the
\* lowest empty winners slot and to no other slot; with a pawn not yet home it
\* leaves the slots as they are stored.
AllHome(game, color) == \A i \in PawnIndexes : PawnAt(game, color, i).endReached
LowestEmpty(winners, k) ==
  winners[k] = NoColor /\ \A j \in 1 .. (k - 1) : winners[j] # NoColor
WinnerRecorded(before, after, color) ==
  IF AllHome(before, color)
  THEN \E k \in 1 .. 3 :
          LowestEmpty(before.winners, k) /\ after.winners = [before.winners EXCEPT ![k] = color]
  ELSE after.winners = before.winners
\* the player of session s holds the turn of the stored game g, with a color
HoldsTurn(g, s) ==
  /\ g \in DOMAIN store
  /\ store[g].current = s
  /\ \E k \in 1 .. Len(store[g].players) :
        store[g].players[k].socketId = s /\ store[g].players[k].color # NoColor
WinnerInLowestSlot ==
  [][\A c \in BagToSet(calls) :
       (Stepped(c) /\ lastEvent'.kind = "moved" /\ HoldsTurn(c.gid, c.s)) =>
          WinnerRecorded(store[c.gid], emitted'[Len(emitted')], PlayerColor(store[c.gid], c.s))]_vars

\* C14: the move-acknowledged that fills the third winners slot broadcasts
\* the final game once and deletes the store entry of the game and the
\* session-index entry of every player of its roster; the game is not stored
\* or broadcast again, and every choose-color, roll, confirm, pawn move and
\* move-acknowledged of a session with no index entry is refused and leaves no
\* trace (create-game and join-game give a session a game again).
Roster(game) == {game.players[k].socketId : k \in 1 .. Len(game.players)}
Ended == lastEvent.kind = "moved" /\ Len(emitted) = 1 /\ emitted[1].winners[3] # NoColor
Purge ==
  (lastEvent'.kind = "moved" /\ emitted'[Len(emitted')].winners[3] # NoColor) =>
     /\ Len(emitted') = 1
     /\ lastEvent'.game \notin DOMAIN store'
     /\ \A s \in Roster(emitted'[1]) : s \notin DOMAIN index'
\* the step after the end: whatever it is, the game stays out of the store,
\* and a handler that ends there does not broadcast it
StaysPurged ==
  Ended =>
     /\ lastEvent.game \notin DOMAIN store'
     /\ lastEvent'.kind \notin {"ask", "read"} =>
           \A k \in 1 .. Len(emitted') : emitted'[k].id # lastEvent.game
Shut(o) == ~o.ok /\ o.store = store /\ o.index = index /\ o.emits = <<>>
OutsidersShut ==
  \A s \in Sessions \ (gone \cup DOMAIN index) :
     /\ EveryTurnOutcome(Shut, s)
     /\ \A c \in Colors : Shut(chooseColor(Db(World), s, c))
     /\ \A g \in GameIds \ DOMAIN store : Shut(joinGame(Db(World), s, g))
FinishedGamePurged == []OutsidersShut /\ [][Purge /\ StaysPurged]_vars

\* C15: in every reachable state every pawn stands on an initial cell of its
\* color (index 0..3), on a ring cell road-0..road-51 or on a lane cell of its
\* color (index 0..5), and its endReached flag is true exactly when it stands
\* on lane index 5 of its color.
OnBoard(pawn) ==
  \/ \E i \in 0 .. (PawnsPerColor - 1) : pawn.squareId = InitialId(pawn.color, i)
  \/ \E r \in 0 .. LastRoadIndex : pawn.squareId = RoadId(r)
  \/ \E i \in 0 .. (FinalLen - 1) : pawn.squareId = FinalId(pawn.color, i)
WellPlaced(pawn) ==
  /\ OnBoard(pawn)
  /\ pawn.endReached <=> (pawn.squareId = FinalId(pawn.color, FinalLen - 1))
PawnsWellPlaced ==
  \A g \in DOMAIN store : \A c \in Colors, i \in PawnIndexes :
     /\ PawnAt(store[g], c, i).color = c
     /\ WellPlaced(PawnAt(store[g], c, i))
\* a captured pawn that was still to move on the road has just been moved
\* from its initial cell by a road move
PawnMovedFromStart ==
  /\ lastEvent.kind = "moveRoad"
  /\ HasLastGame
  /\ Includes(LastGame.board.movePawn.startingSquareId, "initial")
  /\ Includes(Reached(LastGame), "final")

\* C16: a disconnect of a player of a stored game with at least 2 players
\* takes that player out of the roster and its entry out of the session index,
\* and leaves the board, the dice, the winners and `current` of the game, and
\* every other game, as they are stored; a disconnect of the only player of a
\* game deletes the game and the entry of the session.
Others(f, k) == [x \in (DOMAIN f) \ {k} |-> f[x]]
LeftRoster(before, after, s) ==
  /\ after.players = SelectSeq(before.players, LAMBDA p : p.socketId # s)
  /\ after.board = before.board
  /\ after.dice = before.dice
  /\ after.winners = before.winners
  /\ after.current = before.current
  /\ after.id = before.id
\* the steps of the handler: the entry of the session goes when it asks for
\* the game, the game is saved or deleted when it resumes
DisconnectFrame(c) ==
  IF c.stage = "id"
  THEN index' = Others(index, c.s) /\ store' = store
  ELSE /\ index' = index
       /\ Others(store', c.gid) = Others(store, c.gid)
       /\ c.gid \in DOMAIN store =>
             IF Len(store[c.gid].players) >= 2
             THEN c.gid \in DOMAIN store' /\ LeftRoster(store[c.gid], store'[c.gid], c.s)
             ELSE c.gid \notin DOMAIN store'
DisconnectLeavesGame ==
  [][\A c \in BagToSet(calls) :
       (Stepped(c) /\ c.asked = {<<"disconnect", c.s>>}) => DisconnectFrame(c)]_vars

\* C17: the generated road has 52 cells road-0 .. road-51 in order, in four
\* segments of 13 cells, one per color in the order of the colors; in every
\* segment the cell at offset 8, and no other, is an entrance, the cell at
\* offset 6, and no other, is an exit, and the cells at offsets 3 and 8, and no
\* others, are safe; in a game just created every pawn stands on the initial
\* cell of its color whose index is the index of the pawn.
CellAsLaidOut(cell, n) ==
  /\ cell.id = RoadId(n)
  /\ cell.color = n \div 13
  /\ cell.entrance <=> (n % 13 = 8)
  /\ cell.exit <=> (n % 13 = 6)
  /\ cell.safeZone <=> (n % 13 \in {3, 8})
PawnsAtStart(game) ==
  \A c \in Colors, i \in PawnIndexes :
     /\ PawnAt(game, c, i).index = i
     /\ PawnAt(game, c, i).squareId = InitialId(c, i)
BoardAsLaidOut ==
  /\ Len(Road) = 52
  /\ \A n \in 0 .. 51 : CellAsLaidOut(Road[n + 1], n)
  /\ DOMAIN generatePawns = 0 .. 3
  /\ \A c \in Colors : Len(generatePawns[c]) = 4
  /\ (lastEvent.kind = "create" /\ HasLastGame) => PawnsAtStart(LastGame)
\* a game has just been created, with its board
BoardCreated ==
  /\ lastEvent.kind = "create"
  /\ HasLastGame
  /\ LastGame.board = createBoard
  /\ Road[9].entrance

\* C18: after every processed move-acknowledged no marker flagged "removed" is
\* left in the mitosis or the karyogamy list of any cell of the game.
NoneRemoved(map) ==
  \A sq \in DOMAIN map : \A k \in 1 .. Len(map[sq]) : map[sq][k].type # REMOVED
RemovedDroppedOnAck ==
  (lastEvent.kind = "moved" /\ HasLastGame) =>
     /\ NoneRemoved(LastGame.board.mitosis)
     /\ NoneRemoved(LastGame.board.karyogamy)

\* C19: right after a processed move-acknowledged every marker in the mitosis
\* or the karyogamy list of a cell refers to a pawn that stands on that cell.
MitosisOnCell(game) ==
  \A sq \in DOMAIN game.board.mitosis : \A k \in 1 .. Len(game.board.mitosis[sq]) :
     PawnAt(game, game.board.mitosis[sq][k].color, game.board.mitosis[sq][k].index).squareId = sq
KaryogamyOnCell(game) ==
  \A sq \in DOMAIN game.board.karyogamy : \A k \in 1 .. Len(game.board.karyogamy[sq]) :
     PawnAt(game, game.board.karyogamy[sq][k].color, game.board.karyogamy[sq][k].id).squareId = sq
MarkersFollowPawns ==
  (lastEvent.kind = "moved" /\ HasLastGame) => (MitosisOnCell(LastGame) /\ KaryogamyOnCell(LastGame))

\* C20: in every reachable state, for every cell and every color with a marker
\* not flagged "removed" in the karyogamy list of the cell, exactly one marker
\* of that color in the list is flagged main, and that marker is not flagged
\* "removed".
MainsOf(list, c) == {k \in 1 .. Len(list) : list[k].color = c /\ list[k].isMain}
OneMain(list, c) ==
  (\E k \in 1 .. Len(list) : list[k].color = c /\ list[k].type # REMOVED) =>
     /\ Cardinality(MainsOf(list, c)) = 1
     /\ \A k \in MainsOf(list, c) : list[k].type # REMOVED
OneMainPerColor ==
  \A g \in DOMAIN store : \A sq \in DOMAIN store[g].board.karyogamy : \A c \in Colors :
     OneMain(store[g].board.karyogamy[sq], c)

\* C21: a road move changes the square of the mover and, when it captures, of
\* the one captured pawn, which goes to the initial cell of its color at its own
\* index and is recorded (color and index) in the last-move descriptor; every
\* other pawn keeps its square, and with no capture the descriptor records no
\* captured pawn.
Displaced(before, after) ==
  {p \in Colors \X PawnIndexes :
     PawnAt(after, p[1], p[2]).squareId # PawnAt(before, p[1], p[2]).squareId}
Captive(after) == <<after.board.movePawn.smash.color, after.board.movePawn.smash.index>>
RoadMoveFrame(before, after) ==
  IF after.board.movePawn.smash = NoSmash
  THEN Displaced(before, after) \subseteq {Mover(after)}
  ELSE /\ Captive(after) \in (Colors \X PawnIndexes) \ {Mover(after)}
       /\ Displaced(before, after) \ {Mover(after)} = {Captive(after)}
       /\ PawnAt(before, Captive(after)[1], Captive(after)[2]).squareId = Reached(after)
       /\ PawnAt(after, Captive(after)[1], Captive(after)[2]).squareId
            = InitialId(Captive(after)[1], Captive(after)[2])
RoadMoveDisplacesTwo ==
  [][(lastEvent'.kind = "moveRoad" /\ lastEvent'.game \in DOMAIN store) =>
       RoadMoveFrame(store[lastEvent'.game], store'[lastEvent'.game])]_vars

\* C22: wherever confirm-roll-result or move-acknowledged selects the next
\* player, the selection ends without an exception and hands the turn to a
\* roster member whose color is in no winners slot, whatever the roster has
\* become through joins and disconnects.
Eligible(game, session) ==
  \E k \in 1 .. Len(game.players) :
     /\ game.players[k].socketId = session
     /\ game.players[k].color \notin WinnerValues(game.winners)
TurnHanded(o, g) ==
  /\ o.error # Thrown
  /\ (o.ok /\ g \in DOMAIN o.store) => Eligible(o.store[g], o.store[g].current)
SelectsOnMoved(v, s) ==
  /\ v.error = ""
  /\ v.game.current = s
  /\ PlayerColor(v.game, s) # NoColor
  /\ (v.game.dice.result # 6 \/ v.game.dice.count > 2)
SelectsOnResult(v, s) == v.error = "" /\ PlayerColor(v.game, s) # NoColor
NextPlayerSelected ==
  \A s \in DOMAIN index :
     /\ SelectsOnMoved(validateMovedPawn(Db(World), s), s)
          => TurnHanded(movedPawn(Db(World), s), index[s])
     /\ SelectsOnResult(validateDiceResult(Db(World), s), s)
          => TurnHanded(rollResult(Db(World), s), index[s])

\* C24: in every stored game `current` is the session of a player of the
\* roster of that game.
TurnHolderSeated ==
  \A g \in DOMAIN store :
     \E k \in 1 .. Len(store[g].players) : store[g].players[k].socketId = store[g].current

\* C25: a session is in the roster of at most one stored game, and it is in
\* the roster of game g exactly when the session index maps it to g.
Seats(session) ==
  {g \in DOMAIN store :
     \E k \in 1 .. Len(store[g].players) : store[g].players[k].socketId = session}
RosterMatchesIndex ==
  \A s \in Sessions :
     /\ Cardinality(Seats(s)) <= 1
     /\ \A g \in GameIds : g \in Seats(s) <=> (s \in DOMAIN index /\ index[s] = g)

\* C26: the roster of every stored game holds between 1 and 4 players with
\* pairwise distinct sessions, no two of them with the same chosen color; a
\* join-game on a full roster and a choose-color of a color held by a roster
\* member are rejected.
RosterSound(players) ==
  /\ Len(players) \in 1 .. MaxPlayers
  /\ \A j, k \in 1 .. Len(players) :
        j # k => /\ players[j].socketId # players[k].socketId
                 /\ (players[j].color # NoColor => players[j].color # players[k].color)
FullJoinRejected ==
  \A s \in Sessions \ gone, g \in DOMAIN store :
     Len(store[g].players) >= MaxPlayers => ~joinGame(Db(World), s, g).ok
HeldColorRejected ==
  \A s \in DOMAIN index, c \in Colors :
     (index[s] \in DOMAIN store /\ c \in ColorsOf(store[index[s]]))
        => ~chooseColor(Db(World), s, c).ok
RostersSound ==
  /\ \A g \in DOMAIN store : RosterSound(store[g].players)
  /\ FullJoinRejected
  /\ HeldColorRejected
\* the last seat of a game has just taken the last free color while a session
\* outside the game is connected
RosterFilled ==
  /\ lastEvent.kind = "color"
  /\ HasLastGame
  /\ Len(LastGame.players) = MaxPlayers
  /\ ColorsOf(LastGame) = Colors
  /\ \E s \in Sessions \ (gone \cup DOMAIN index) :
        joinGame(Db(World), s, lastEvent.game).error = "Game is full"
  /\ \E c \in Colors :
        chooseColor(Db(World), lastEvent.session, c).error = "Color already taken"

\* C23: two accepted actions on one game whose loads and saves interleave leave
\* the game stored as one of the two orders of applying them one after the
\* other would (no update is lost).
\* redis after the handler of req ran alone on db (a refusal writes nothing)
InTurn(db, req) == Db(Do([FreshWorld EXCEPT !.store = db.store, !.index = db.index], req).world)
OneAfterOther(db, first, second) == InTurn(InTurn(db, first), second)
SameGame(db, a, b, g) ==
  /\ g \in DOMAIN db.store
  /\ \A req \in {a, b} :
        /\ req[1] # "create"
        /\ IF req[1] = "join" THEN req[3] = g
           ELSE req[2] \in DOMAIN db.index /\ db.index[req[2]] = g
\* game g is stored in st as it is in redis, or in neither
StoredAs(g, st) ==
  IF g \in DOMAIN store THEN g \in DOMAIN st /\ st[g] = store[g] ELSE g \notin DOMAIN st
\* the second of two calls on game g has just been served and no call is open
SerialOutcome(g) ==
  (/\ calls = EmptyBag
   /\ Len(served.done) = 2
   /\ lastEvent.kind = served.done[2][1]
   /\ lastEvent.session = served.done[2][2]
   /\ SameGame(served.base, served.done[1], served.done[2], g))
    => \/ StoredAs(g, OneAfterOther(served.base, served.done[1], served.done[2]).store)
       \/ StoredAs(g, OneAfterOther(served.base, served.done[2], served.done[1]).store)
ActionsSerialized == \A g \in GameIds : SerialOutcome(g)

====
